---------------------------- MODULE Spec2Model ----------------------------
(***************************************************************************)
(* Registration throttling and one-time-code issuance                      *)
(* (functions/register/main.py).                                           *)
(*                                                                         *)
(* One HTTP request is handled by register(): validation and the abuse     *)
(* gate (_is_request_valid), the pending-code lookup, the datastore put    *)
(* and the throttled publish.  Requests are handled by stateless workers   *)
(* that share only the datastore and the publish channel, so the handler   *)
(* is cut at its external calls: each action below is one stretch of       *)
(* register() between two such calls.                                      *)
(*                                                                         *)
(* Time is counted in minutes.  The datastore keeps the entities in the    *)
(* order they were put; datetime.now() never decreases, so that order is   *)
(* also the order of their dates.                                          *)
(***************************************************************************)
EXTENDS Naturals, Integers, Sequences, FiniteSets, TLC

VARIABLES
    STAGE,        \* os.environ["STAGE"], fixed for a deployment
    clock,        \* datetime.now(tz=pytz.utc), in minutes
    store,        \* the entities of kind "Registrations", in put order
    minted,       \* number of tokens secrets.token_hex has returned
    published,    \* payloads handed to publisher.publish, in call order
    pc,           \* per worker: where register() stands
    req,          \* per worker: the request being handled
    code,         \* per worker: the local variable `code`
    generated,    \* per worker: whether `code` came from random.choice
    response,     \* per worker: what register() returns
    future        \* per worker: outcome of the future publish() returned

vars == <<STAGE, clock, store, minted, published, pc, req, code, generated, response, future>>

---------------------------------------------------------------------------
(* Program constants *)

INVALID_REGS_PER_IP_LIMIT == 10
INVALID_REGS_PER_MSISDN_LIMIT == 4
SEND_SMS_LIMIT_PER_MINUTE == 1
SEND_SMS_LIMIT_PER_HOUR == 2
SEND_SMS_LIMIT_PER_24_HOURS == 5
CODE_CHARACTERS == 0..9
CodeLength == 6
REGISTRATION_STATUS_PENDING == "pending"
REGISTRATION_STATUS_INCORRECT == "incorrect"
MESSAGE_INVALID_PHONE_NUMBER == "invalid_phone_number"
MESSAGE_REGISTRATION_NOT_AVAILABLE == "registration_not_available"

\* timedelta values, in minutes
PendingCodePeriod == 10
OneMinute == 1
OneHour == 60
OneDay == 1440

\* characters re.sub("[^0-9,+]", "", msisdn) keeps
DigitChars == {"0", "1", "2", "3", "4", "5", "6", "7", "8", "9"}
KeptChars_NoComma == DigitChars \cup {"+"}

KeptChars == DigitChars \cup {",", "+"}
NationalDigits == 9

---------------------------------------------------------------------------
(* Bounds of the model *)

NumWorkers == 2
MaxRecords == 5
MaxIncorrect == 1
MaxCodeRecords == 3
MaxThrottleRecords == 6
MaxDeliveryRecords == 3
NumCodes == 2
MaxIpRecords == 13
MaxRaceRecords == 6
MaxLifetimeRecords == 4
NumLifetimeCodes == 3

Workers == 1..NumWorkers



---------------------------------------------------------------------------
(* Sample inputs.  A phone number is the sequence of its characters. *)

MsPlain == <<"+", "4", "8", "1", "2", "3", "4", "5", "6", "7", "8", "9">>
MsSpaced == <<"+", "4", "8", " ", "1", "2", "3", "4", "5", "6", "7", "8", "9">>
MsComma == <<"+", "4", "8", "1", "2", "3", "4", "5", "6", ",", "7", "8", "9">>
MsShort == <<"+", "4", "8", "1", "2", "3", "4", "5", "6", "7", "8">>
MsOther == <<"+", "4", "8", "6", "0", "0", "7", "0", "0", "8", "0", "0">>
MsThird == <<"+", "4", "8", "5", "0", "1", "5", "0", "2", "5", "0", "3">>
MsFourth == <<"+", "4", "8", "7", "0", "1", "7", "0", "2", "7", "0", "3">>

\* X-Forwarded-For, as the list of its comma-separated entries
XffDirect == <<"ip1">>
XffProxied == <<"ip2", "ip3">>

\* a POST request with a JSON body: a dict is a function on its keys
PostJson(body, xff) == [method |-> "POST", is_json |-> TRUE, json |-> body, xff |-> xff]

\* requests that fail before the phone number is looked at
MalformedRequests ==
    { [method |-> "GET", is_json |-> TRUE, json |-> [lang |-> "pl", msisdn |-> MsPlain], xff |-> XffDirect],
      [method |-> "POST", is_json |-> FALSE, json |-> [lang |-> "pl", msisdn |-> MsPlain], xff |-> XffDirect],
      [method |-> "POST", is_json |-> TRUE, json |-> [msisdn |-> MsPlain], xff |-> XffDirect],
      [method |-> "POST", is_json |-> TRUE, json |-> [lang |-> "de", msisdn |-> MsPlain], xff |-> XffDirect],
      [method |-> "POST", is_json |-> TRUE, json |-> [lang |-> "de", msisdn |-> MsShort], xff |-> XffDirect] }

\* requests with a valid language and no acceptable phone number
BadPhoneRequests ==
    { [method |-> "POST", is_json |-> TRUE, json |-> [lang |-> "en"], xff |-> XffDirect],
      [method |-> "POST", is_json |-> TRUE, json |-> [lang |-> "pl", msisdn |-> MsComma], xff |-> XffDirect] }

\* "".join(random.choice(CODE_CHARACTERS) for _ in range(6)): the codes drawn here
\* are the n codes made of one repeated digit
GeneratedCodes(n) == { [i \in 1..CodeLength |-> d] : d \in { c \in CODE_CHARACTERS : c < n } }

NoRequest == [method |-> "", is_json |-> FALSE, json |-> [lang |-> ""], xff |-> <<>>]
NoCode == <<>>
NoResponse == [http |-> 0, body |-> [status |-> ""]]

---------------------------------------------------------------------------
(* The pure parts of main.py *)

MESSAGES ==
    [ invalid_phone_number |->
          [pl |-> "invalid_phone_number.pl", en |-> "invalid_phone_number.en"],
      registration_not_available |->
          [pl |-> "registration_not_available.pl", en |-> "registration_not_available.en"] ]

jsonify_failed(message, http) == [http |-> http, body |-> [status |-> "failed", message |-> message]]

InvalidLanguageResponse_400 == jsonify_failed("Set lang parameter to pl or en", 400)

InvalidLanguageResponse == jsonify_failed("Set lang parameter to pl or en", 422)

is_language_valid(request_data) ==
    LET languages_available == {"pl", "en"}
    IN  "lang" \in DOMAIN request_data /\ request_data.lang \in languages_available

get_message(message_code, lang) == MESSAGES[message_code][lang]

\* re.sub("[^0-9,+]", "", msisdn)
StripPhoneNumber(msisdn) == SelectSeq(msisdn, LAMBDA c : c \in KeptChars)

\* re.match(r"^\+48[0-9]{9}$", msisdn)
MatchesNumberingPlan(m) ==
    /\ Len(m) = 3 + NationalDigits
    /\ m[1] = "+" /\ m[2] = "4" /\ m[3] = "8"
    /\ \A i \in 4..Len(m) : m[i] \in DigitChars

check_phone_number(msisdn) == MatchesNumberingPlan(StripPhoneNumber(msisdn))

---------------------------------------------------------------------------
(* The datastore queries *)

RemoveAt(s, i) == SubSeq(s, 1, i - 1) \o SubSeq(s, i + 1, Len(s))

\* query.order = ["-date"]; among equal dates the later put is the newer entity
RECURSIVE NewestFirst(_)
NewestFirst(s) ==
    IF s = <<>> THEN <<>>
    ELSE LET i == CHOOSE k \in 1..Len(s) :
                      \A j \in 1..Len(s) :
                          \/ s[j].date < s[k].date
                          \/ s[j].date = s[k].date /\ j <= k
         IN  <<s[i]>> \o NewestFirst(RemoveAt(s, i))

\* status = "" stands for status=None: `if status:` then adds no filter
get_registration_entities_Inclusive(entities, now, field, value, time_period, status) ==
    LET start_date == now - time_period
        Matches(e) == /\ e[field] = value
                      /\ (status # "" => e.status = status)
                      /\ e.date >= start_date
    IN  NewestFirst(SelectSeq(entities, Matches))

get_registration_entities(entities, now, field, value, time_period, status) ==
    LET start_date == now - time_period
        Matches(e) == /\ e[field] = value
                      /\ (status # "" => e.status = status)
                      /\ e.date > start_date
    IN  NewestFirst(SelectSeq(entities, Matches))

\* a gate that counts the pending entities only
is_too_many_requests_for_PendingOnly(entities, now, field, value, limit) ==
    LET registration_entities ==
            get_registration_entities(entities, now, field, value, OneHour, REGISTRATION_STATUS_PENDING)
    IN  Len(registration_entities) >= limit

is_too_many_requests_for_Above(entities, now, field, value, limit) ==
    LET registration_entities ==
            get_registration_entities(entities, now, field, value, OneHour, REGISTRATION_STATUS_PENDING)
              \o get_registration_entities(entities, now, field, value, OneHour, REGISTRATION_STATUS_INCORRECT)
    IN  Len(registration_entities) > limit

is_too_many_requests_for(entities, now, field, value, limit) ==
    LET registration_entities ==
            get_registration_entities(entities, now, field, value, OneHour, REGISTRATION_STATUS_PENDING)
              \o get_registration_entities(entities, now, field, value, OneHour, REGISTRATION_STATUS_INCORRECT)
    IN  Len(registration_entities) >= limit

\* a lookup that leaves out the status filter
get_pending_registration_code_AnyStatus(entities, now, msisdn) ==
    LET registration_entities ==
            get_registration_entities(entities, now, "msisdn", msisdn, PendingCodePeriod, "")
    IN  IF Len(registration_entities) > 0 THEN registration_entities[1].code ELSE NoCode

get_pending_registration_code_Oldest(entities, now, msisdn) ==
    LET registration_entities ==
            get_registration_entities(entities, now, "msisdn", msisdn, PendingCodePeriod, REGISTRATION_STATUS_PENDING)
    IN  IF Len(registration_entities) > 0
        THEN registration_entities[Len(registration_entities)].code ELSE NoCode

\* NoCode stands for None
get_pending_registration_code(entities, now, msisdn) ==
    LET registration_entities ==
            get_registration_entities(entities, now, "msisdn", msisdn, PendingCodePeriod, REGISTRATION_STATUS_PENDING)
    IN  IF Len(registration_entities) > 0 THEN registration_entities[1].code ELSE NoCode

\* a throttle without the per-hour cap
should_send_sms_NoHourCap(entities, now, msisdn) ==
    LET registration_entities_last_minute == get_registration_entities(entities, now, "msisdn", msisdn, OneMinute, "")
        registration_entities_last_24_hours == get_registration_entities(entities, now, "msisdn", msisdn, OneDay, "")
    IN  ~ \/ Len(registration_entities_last_minute) > SEND_SMS_LIMIT_PER_MINUTE
          \/ Len(registration_entities_last_24_hours) > SEND_SMS_LIMIT_PER_24_HOURS

\* a throttle without the per-minute cap
should_send_sms_NoMinuteCap(entities, now, msisdn) ==
    LET registration_entities_last_hour == get_registration_entities(entities, now, "msisdn", msisdn, OneHour, "")
        registration_entities_last_24_hours == get_registration_entities(entities, now, "msisdn", msisdn, OneDay, "")
    IN  ~ \/ Len(registration_entities_last_hour) > SEND_SMS_LIMIT_PER_HOUR
          \/ Len(registration_entities_last_24_hours) > SEND_SMS_LIMIT_PER_24_HOURS

should_send_sms_NoDayCap(entities, now, msisdn) ==
    LET registration_entities_last_minute == get_registration_entities(entities, now, "msisdn", msisdn, OneMinute, "")
        registration_entities_last_hour == get_registration_entities(entities, now, "msisdn", msisdn, OneHour, "")
    IN  ~ \/ Len(registration_entities_last_minute) > SEND_SMS_LIMIT_PER_MINUTE
          \/ Len(registration_entities_last_hour) > SEND_SMS_LIMIT_PER_HOUR

should_send_sms(entities, now, msisdn) ==
    LET registration_entities_last_minute == get_registration_entities(entities, now, "msisdn", msisdn, OneMinute, "")
        registration_entities_last_hour == get_registration_entities(entities, now, "msisdn", msisdn, OneHour, "")
        registration_entities_last_24_hours == get_registration_entities(entities, now, "msisdn", msisdn, OneDay, "")
    IN  ~ \/ Len(registration_entities_last_minute) > SEND_SMS_LIMIT_PER_MINUTE
          \/ Len(registration_entities_last_hour) > SEND_SMS_LIMIT_PER_HOUR
          \/ Len(registration_entities_last_24_hours) > SEND_SMS_LIMIT_PER_24_HOURS

\* a validation that also applies INVALID_REGS_PER_IP_LIMIT to the caller's address
is_request_valid_IpGate(request, entities, now) ==
    IF request.method # "POST" THEN jsonify_failed("Invalid method", 405)
    ELSE IF ~request.is_json THEN jsonify_failed("Invalid data", 422)
    ELSE LET request_data == request.json IN
         IF ~is_language_valid(request_data)
         THEN InvalidLanguageResponse
         ELSE LET lang == request_data.lang IN
              IF "msisdn" \notin DOMAIN request_data \/ ~check_phone_number(request_data.msisdn)
              THEN jsonify_failed(get_message(MESSAGE_INVALID_PHONE_NUMBER, lang), 422)
              ELSE IF \/ is_too_many_requests_for(entities, now, "msisdn", request_data.msisdn,
                                                  INVALID_REGS_PER_MSISDN_LIMIT)
                      \/ is_too_many_requests_for(entities, now, "ip", request.xff[Len(request.xff)],
                                                  INVALID_REGS_PER_IP_LIMIT)
                   THEN jsonify_failed(get_message(MESSAGE_REGISTRATION_NOT_AVAILABLE, lang), 429)
                   ELSE NoResponse

\* the result of _is_request_valid: NoResponse stands for (True, None)
is_request_valid(request, entities, now) ==
    IF request.method # "POST" THEN jsonify_failed("Invalid method", 405)
    ELSE IF ~request.is_json THEN jsonify_failed("Invalid data", 422)
    ELSE LET request_data == request.json IN
         IF ~is_language_valid(request_data)
         THEN InvalidLanguageResponse
         ELSE LET lang == request_data.lang IN
              IF "msisdn" \notin DOMAIN request_data \/ ~check_phone_number(request_data.msisdn)
              THEN jsonify_failed(get_message(MESSAGE_INVALID_PHONE_NUMBER, lang), 422)
              ELSE IF is_too_many_requests_for(entities, now, "msisdn", request_data.msisdn,
                                               INVALID_REGS_PER_MSISDN_LIMIT)
                   THEN jsonify_failed(get_message(MESSAGE_REGISTRATION_NOT_AVAILABLE, lang), 429)
                   ELSE NoResponse

\* an upsert whose key is the phone number
put_ByMsisdn(entities, registration) ==
    IF \E i \in 1..Len(entities) : entities[i].msisdn = registration.msisdn
    THEN [i \in 1..Len(entities) |->
              IF entities[i].msisdn = registration.msisdn
              THEN registration ELSE entities[i]]
    ELSE Append(entities, registration)

\* datastore_client.put: an upsert on the key
put(entities, registration) ==
    IF \E i \in 1..Len(entities) : entities[i].registration_id = registration.registration_id
    THEN [i \in 1..Len(entities) |->
              IF entities[i].registration_id = registration.registration_id
              THEN registration ELSE entities[i]]
    ELSE Append(entities, registration)

save_to_datastore(entities, c, msisdn, date, registration_id, ip) ==
    put(entities, [code |-> c, msisdn |-> msisdn, date |-> date,
                   registration_id |-> registration_id, sms_send |-> FALSE,
                   ip |-> ip, status |-> REGISTRATION_STATUS_PENDING])

\* a payload built with the phone number and the code in each other's place
SmsPayload_Swapped(msisdn, registration_id, c, lang) ==
    [registration_id |-> registration_id, msisdn |-> c, code |-> msisdn, lang |-> lang]

\* the payload of _publish_to_send_register_sms_topic
SmsPayload(msisdn, registration_id, c, lang) ==
    [registration_id |-> registration_id, msisdn |-> msisdn, code |-> c, lang |-> lang]

SourceIp_First(request) == request.xff[1]

\* request.headers.get("X-Forwarded-For").split(",")[-1]
SourceIp(request) == request.xff[Len(request.xff)]

\* request_data.get("send_sms", True)
SendSmsFlag(request_data) == IF "send_sms" \in DOMAIN request_data THEN request_data.send_sms ELSE TRUE

---------------------------------------------------------------------------
(* The state machine *)

\* a token generator that returns the same token every time
token_hex_Repeated(n) == 1

\* secrets.token_hex(32): a token never returned before
token_hex(n) == n + 1

ResponseAfterPublish_Raise(resp, outcome) ==
    IF outcome = "failed" THEN [http |-> 500, body |-> [status |-> "error"]] ELSE resp

\* register() drops the future publish() returns: its outcome never reaches the response
ResponseAfterPublish(resp, outcome) == resp

IsDevelopmentBypass_AnyStage(stage, send_sms) == ~send_sms

\* register(), line 63
IsDevelopmentBypass(stage, send_sms) == stage = "DEVELOPMENT" /\ ~send_sms

InFlight == Cardinality({ q \in Workers : pc[q] \in {"issuing", "persisting"} })

InitWith(stages) ==
    /\ STAGE \in stages
    /\ clock = 0
    /\ store = <<>>
    /\ minted = 0
    /\ published = <<>>
    /\ pc = [p \in Workers |-> "idle"]
    /\ req = [p \in Workers |-> NoRequest]
    /\ code = [p \in Workers |-> NoCode]
    /\ generated = [p \in Workers |-> FALSE]
    /\ response = [p \in Workers |-> NoResponse]
    /\ future = [p \in Workers |-> "none"]

\* register(), lines 45-47: the request arrives and _is_request_valid runs
Receive(p, r, maxRecords) ==
    /\ pc[p] = "idle"
    /\ LET rejection == is_request_valid(r, store, clock) IN
         /\ rejection = NoResponse => minted + InFlight < maxRecords
         /\ pc' = [pc EXCEPT ![p] = IF rejection = NoResponse THEN "issuing" ELSE "done"]
         /\ response' = [response EXCEPT ![p] = rejection]
    /\ req' = [req EXCEPT ![p] = r]
    /\ UNCHANGED <<STAGE, clock, store, minted, published, code, generated, future>>

\* register(), line 54: the pending code, or else one drawn with random.choice
Issue(p, drawn) ==
    /\ pc[p] = "issuing"
    /\ LET msisdn == req[p].json.msisdn
           pending == get_pending_registration_code(store, clock, msisdn)
       IN  /\ code' = [code EXCEPT ![p] = IF pending # NoCode THEN pending ELSE drawn]
           /\ generated' = [generated EXCEPT ![p] = (pending = NoCode)]
    /\ pc' = [pc EXCEPT ![p] = "persisting"]
    /\ UNCHANGED <<STAGE, clock, store, minted, published, req, response, future>>

\* register(), lines 55-60: the new entity is put and the response is built
Persist(p) ==
    /\ pc[p] = "persisting"
    /\ LET msisdn == req[p].json.msisdn
           ip == SourceIp(req[p])
           registration_id == token_hex(minted)
           date == clock
       IN  /\ store' = save_to_datastore(store, code[p], msisdn, date, registration_id, ip)
           /\ response' = [response EXCEPT ![p] =
                  [http |-> 200, body |-> [status |-> "ok", registration_id |-> registration_id]]]
    /\ minted' = minted + 1
    /\ pc' = [pc EXCEPT ![p] = "dispatching"]
    /\ UNCHANGED <<STAGE, clock, published, req, code, generated, future>>

\* the put raises but the exception is caught and the handler goes on
PersistFail_Swallowed(p) ==
    /\ pc[p] = "persisting"
    /\ minted' = minted + 1
    /\ response' = [response EXCEPT ![p] =
           [http |-> 200, body |-> [status |-> "ok", registration_id |-> token_hex(minted)]]]
    /\ pc' = [pc EXCEPT ![p] = "dispatching"]
    /\ UNCHANGED <<STAGE, clock, store, published, req, code, generated, future>>

\* register(), line 58: datastore_client.put raises, and so does register()
PersistFail(p) ==
    /\ pc[p] = "persisting"
    /\ minted' = minted + 1
    /\ response' = [response EXCEPT ![p] = [http |-> 500, body |-> [status |-> "error"]]]
    /\ pc' = [pc EXCEPT ![p] = "done"]
    /\ UNCHANGED <<STAGE, clock, store, published, req, code, generated, future>>

\* register(), lines 62-68: the development bypass, or the throttled publish
Dispatch(p, outcome) ==
    /\ pc[p] = "dispatching"
    /\ LET request_data == req[p].json
           msisdn == request_data.msisdn
           lang == request_data.lang
           send_sms == SendSmsFlag(request_data)
           registration_id == response[p].body.registration_id
       IN  IF IsDevelopmentBypass(STAGE, send_sms)
           THEN /\ response' = [response EXCEPT ![p] =
                       [http |-> 200,
                        body |-> [status |-> "ok", registration_id |-> registration_id, code |-> code[p]]]]
                /\ UNCHANGED <<published, future>>
           ELSE IF should_send_sms(store, clock, msisdn)
                THEN /\ published' = Append(published, SmsPayload(msisdn, registration_id, code[p], lang))
                     /\ future' = [future EXCEPT ![p] = outcome]
                     /\ response' = [response EXCEPT ![p] = ResponseAfterPublish(response[p], outcome)]
                ELSE UNCHANGED <<published, future, response>>
    /\ pc' = [pc EXCEPT ![p] = "done"]
    /\ UNCHANGED <<STAGE, clock, store, minted, req, code, generated>>

\* register() has returned: the worker is free for the next request
Return(p) ==
    /\ pc[p] = "done"
    /\ pc' = [pc EXCEPT ![p] = "idle"]
    /\ req' = [req EXCEPT ![p] = NoRequest]
    /\ code' = [code EXCEPT ![p] = NoCode]
    /\ generated' = [generated EXCEPT ![p] = FALSE]
    /\ response' = [response EXCEPT ![p] = NoResponse]
    /\ future' = [future EXCEPT ![p] = "none"]
    /\ UNCHANGED <<STAGE, clock, store, minted, published>>

\* time passes: the clock moves on to a later instant
Tick(t) ==
    /\ t > clock
    /\ clock' = t
    /\ UNCHANGED <<STAGE, store, minted, published, pc, req, code, generated, response, future>>

\* the verification step, outside this function, marks a pending registration incorrect
MarkIncorrect(i, maxIncorrect) ==
    /\ store[i].status = REGISTRATION_STATUS_PENDING
    /\ Cardinality({ j \in 1..Len(store) : store[j].status = REGISTRATION_STATUS_INCORRECT }) < maxIncorrect
    /\ store' = [store EXCEPT ![i].status = REGISTRATION_STATUS_INCORRECT]
    /\ UNCHANGED <<STAGE, clock, minted, published, pc, req, code, generated, response, future>>

NextWith(workers, requests, codes, instants, maxRecords, maxIncorrect) ==
    \/ \E p \in workers, r \in requests : Receive(p, r, maxRecords)
    \/ \E p \in workers, c \in codes : Issue(p, c)
    \/ \E p \in workers : Persist(p)
    \/ \E p \in workers : PersistFail(p)
    \/ \E p \in workers, o \in {"sent", "failed"} : Dispatch(p, o)
    \/ \E p \in workers : Return(p)
    \/ \E t \in instants : Tick(t)
    \/ \E i \in 1..Len(store) : MarkIncorrect(i, maxIncorrect)

---------------------------------------------------------------------------
(* Validation and the abuse gate, one request at a time: two spellings of one number *)

GateRequests ==
    { PostJson([lang |-> "pl", msisdn |-> MsPlain], XffDirect),
      PostJson([lang |-> "en", msisdn |-> MsSpaced], XffProxied) }
      \cup MalformedRequests \cup BadPhoneRequests

GateInstants == {0, 59, 60}

Init == InitWith({"PRODUCTION"})
Next == NextWith({1}, GateRequests, GeneratedCodes(1), GateInstants, MaxRecords, MaxIncorrect)
Spec == Init /\ [][Next]_vars

---------------------------------------------------------------------------
(* Code issuance with two workers: retries inside, on and past the ten-minute window *)

CodeRequests ==
    { PostJson([lang |-> "pl", msisdn |-> MsPlain], XffDirect),
      PostJson([lang |-> "pl", msisdn |-> MsPlain, send_sms |-> FALSE], XffDirect),
      PostJson([lang |-> "en", msisdn |-> MsOther], XffProxied) }

CodeInstants == {0, 5, 10}

NextCode == NextWith({1, 2}, CodeRequests, GeneratedCodes(NumCodes), CodeInstants, MaxCodeRecords, 1)
SpecCode == InitWith({"DEVELOPMENT"}) /\ [][NextCode]_vars

---------------------------------------------------------------------------
(* The delivery throttle, one request at a time: attempts spread over minutes, hours
   and more than a day *)

ThrottleRequests ==
    { PostJson([lang |-> "pl", msisdn |-> MsPlain], XffDirect),
      PostJson([lang |-> "pl", msisdn |-> MsPlain, send_sms |-> FALSE], XffDirect) }

ThrottleInstants == {0, 1, 62, 123, 184, 245, 1442}

NextThrottle == NextWith({1}, ThrottleRequests, GeneratedCodes(1), ThrottleInstants, MaxThrottleRecords, 1)
SpecThrottle == InitWith({"PRODUCTION"}) /\ [][NextThrottle]_vars

---------------------------------------------------------------------------
(* Dispatch in both stages, one request at a time, with every value of send_sms *)

DeliveryRequests ==
    { PostJson([lang |-> "pl", msisdn |-> MsPlain], XffDirect),
      PostJson([lang |-> "pl", msisdn |-> MsPlain, send_sms |-> TRUE], XffDirect),
      PostJson([lang |-> "en", msisdn |-> MsPlain, send_sms |-> FALSE], XffProxied) }

DeliveryInstants == {0, 1, 62}

NextDelivery ==
    NextWith({1}, DeliveryRequests, GeneratedCodes(NumCodes), DeliveryInstants, MaxDeliveryRecords, 1)
SpecDelivery == InitWith({"DEVELOPMENT", "PRODUCTION"}) /\ [][NextDelivery]_vars

---------------------------------------------------------------------------
(* One address working through a list of phone numbers, one request at a time: it
   asks for a number once every number before it has had 4 attempts stored *)

Addresses == {XffDirect, XffProxied}

WalkedNumbers == <<MsPlain, MsOther, MsThird, MsFourth>>

Stored(m) == Cardinality({ i \in 1..Len(store) : store[i].msisdn = m })

IpRequests ==
    { PostJson([lang |-> "pl", msisdn |-> WalkedNumbers[k]], XffDirect) :
          k \in { n \in 1..Len(WalkedNumbers) :
                      \A j \in 1..(n - 1) : Stored(WalkedNumbers[j]) >= INVALID_REGS_PER_MSISDN_LIMIT } }

IpInstants == {0, 30}

\* every put is answered here
NextIp ==
    \/ \E r \in IpRequests : Receive(1, r, MaxIpRecords)
    \/ \E c \in GeneratedCodes(1) : Issue(1, c)
    \/ Persist(1)
    \/ \E outcome \in {"sent", "failed"} : Dispatch(1, outcome)
    \/ Return(1)
    \/ \E t \in IpInstants : Tick(t)
    \/ \E i \in 1..Len(store) : MarkIncorrect(i, MaxIncorrect)
SpecIp == InitWith({"PRODUCTION"}) /\ [][NextIp]_vars

---------------------------------------------------------------------------
(* Requests for one number that overlap *)

RaceRequests == { PostJson([lang |-> "pl", msisdn |-> MsPlain], XffDirect) }

RaceInstants == {0, 1}

NextRace == NextWith(Workers, RaceRequests, GeneratedCodes(1), RaceInstants, MaxRaceRecords, MaxIncorrect)
SpecRace == InitWith({"PRODUCTION"}) /\ [][NextRace]_vars

---------------------------------------------------------------------------
(* Retries for two numbers, one request at a time.  A drawn code repeats no code of
   the store, as 6 random digits hardly ever do: entities with equal codes are then a
   minting entity and its reuses. *)

LifetimeRequests ==
    { PostJson([lang |-> "pl", msisdn |-> MsPlain], XffDirect),
      PostJson([lang |-> "en", msisdn |-> MsOther], XffProxied) }

LifetimeInstants == {0, 6, 12}

UnusedCodes == GeneratedCodes(NumLifetimeCodes) \ { store[i].code : i \in 1..Len(store) }

NextLifetime ==
    \/ \E r \in LifetimeRequests : Receive(1, r, MaxLifetimeRecords)
    \/ \E c \in UnusedCodes : Issue(1, c)
    \/ Persist(1)
    \/ PersistFail(1)
    \/ \E outcome \in {"sent", "failed"} : Dispatch(1, outcome)
    \/ Return(1)
    \/ \E t \in LifetimeInstants : Tick(t)
    \/ \E i \in 1..Len(store) : MarkIncorrect(i, MaxIncorrect)
SpecLifetime == InitWith({"PRODUCTION"}) /\ [][NextLifetime]_vars

---------------------------------------------------------------------------
(* What the claims speak of, stated on the store and the request alone *)

\* the request is a POST with a JSON body
IsPostJson(r) == r.method = "POST" /\ r.is_json

HasValidLang(r) == "lang" \in DOMAIN r.json /\ r.json.lang \in {"pl", "en"}

\* the number with every character other than a digit, "+" and "," removed
Normalized(m) == SelectSeq(m, LAMBDA c : c \in DigitChars \/ c = "+" \/ c = ",")

\* "+48" followed by exactly 9 digits
IsPolishNumber(n) ==
    /\ Len(n) = 12
    /\ SubSeq(n, 1, 3) = <<"+", "4", "8">>
    /\ \A i \in 4..12 : n[i] \in DigitChars

HasValidPhone(r) == "msisdn" \in DOMAIN r.json /\ IsPolishNumber(Normalized(r.json.msisdn))

\* the entities of a number, of the given statuses, dated less than `window` minutes ago
Recent(m, statuses, window) ==
    { i \in 1..Len(store) : /\ store[i].msisdn = m
                            /\ store[i].status \in statuses
                            /\ clock - store[i].date < window }

AnyStatus == {"pending", "incorrect"}

\* worker p takes up a request in this step
Arrives(p) == pc[p] = "idle" /\ pc'[p] # "idle"

\* C1: a request with a valid language and phone number is rejected with 429, leaving
\* the store and the channel as they were, when the number has 4 or more pending plus
\* incorrect entities dated within the last hour, and is admitted when it has 3 or fewer
C1_AbuseGate ==
    [][\A p \in Workers :
         (Arrives(p) /\ IsPostJson(req'[p]) /\ HasValidLang(req'[p]) /\ HasValidPhone(req'[p])) =>
             IF Cardinality(Recent(req'[p].json.msisdn, AnyStatus, 60)) >= 4
             THEN /\ pc'[p] = "done"
                  /\ response'[p] =
                         [http |-> 429,
                          body |-> [status |-> "failed",
                                    message |-> MESSAGES["registration_not_available"][req'[p].json.lang]]]
                  /\ store' = store
                  /\ published' = published
             ELSE pc'[p] = "issuing"]_vars

\* a request was rejected by the gate while one of the number's entities was incorrect
C1_Witness ==
    \E p \in Workers :
        /\ pc[p] = "done" /\ response[p].http = 429
        /\ Cardinality(Recent(req[p].json.msisdn, {"incorrect"}, 60)) >= 1
        /\ Cardinality(Recent(req[p].json.msisdn, {"pending"}, 60)) >= 1

\* C5: the put of an accepted attempt adds exactly one entity, with an id no entity had,
\* status pending, sms_send false, the request's msisdn and source IP, and the response
\* carries that id; no other step of the handler adds or removes an entity
C5_OneNewRecord ==
    [][\A p \in Workers :
         /\ (pc[p] = "persisting" /\ pc'[p] = "dispatching") =>
                /\ Len(store') = Len(store) + 1
                /\ SubSeq(store', 1, Len(store)) = store
                /\ LET e == store'[Len(store')] IN
                     /\ \A i \in 1..Len(store) : store[i].registration_id # e.registration_id
                     /\ e.status = "pending"
                     /\ e.sms_send = FALSE
                     /\ e.msisdn = req[p].json.msisdn
                     /\ e.ip = req[p].xff[Len(req[p].xff)]
                     /\ e.code = code[p]
                     /\ response'[p] = [http |-> 200,
                                        body |-> [status |-> "ok", registration_id |-> e.registration_id]]
         /\ (pc[p] # "persisting" \/ pc'[p] # "dispatching") =>
                (pc'[p] # pc[p] => Len(store') = Len(store))]_vars

\* an attempt was accepted and stored although it reused the code of an earlier entity,
\* and it came through a proxy chain
C5_Witness ==
    \E p \in Workers :
        /\ pc[p] = "dispatching"
        /\ Len(req[p].xff) > 1
        /\ \E i, j \in 1..Len(store) :
              /\ i < j
              /\ store[j].registration_id = response[p].body.registration_id
              /\ store[i].msisdn = store[j].msisdn
              /\ store[i].code = store[j].code

\* C6: every stored msisdn is the normalized number
C6_StoredMsisdnNormalized ==
    \A i \in 1..Len(store) : IsPolishNumber(store[i].msisdn)

\* C8: a POST JSON request whose lang is missing or not pl/en gets the invalid-language
\* rejection (422) whatever its msisdn, and the store and the channel stay as they were
C8_InvalidLanguage ==
    [][\A p \in Workers :
         (Arrives(p) /\ IsPostJson(req'[p]) /\ ~HasValidLang(req'[p])) =>
             /\ pc'[p] = "done"
             /\ response'[p] = [http |-> 422,
                                body |-> [status |-> "failed",
                                          message |-> "Set lang parameter to pl or en"]]
             /\ store' = store
             /\ published' = published]_vars

\* the language rejection was given for a number that the abuse gate would refuse
C8_Witness ==
    \E p \in Workers :
        /\ pc[p] = "done" /\ response[p].http = 422
        /\ IsPostJson(req[p]) /\ ~HasValidLang(req[p])
        /\ "msisdn" \in DOMAIN req[p].json
        /\ Cardinality(Recent(req[p].json.msisdn, AnyStatus, 60)) >= 4

\* C9: a POST JSON request with a valid language whose msisdn is missing or does not
\* normalize to +48 and 9 digits gets the invalid-phone rejection (422) in its language,
\* and the store and the channel stay as they were
C9_InvalidPhone ==
    [][\A p \in Workers :
         (Arrives(p) /\ IsPostJson(req'[p]) /\ HasValidLang(req'[p]) /\ ~HasValidPhone(req'[p])) =>
             /\ pc'[p] = "done"
             /\ response'[p] = [http |-> 422,
                                body |-> [status |-> "failed",
                                          message |-> MESSAGES["invalid_phone_number"][req'[p].json.lang]]]
             /\ store' = store
             /\ published' = published]_vars

\* the phone rejection was given for a number that keeps a comma, with entities in the store
C9_Witness ==
    \E p \in Workers :
        /\ pc[p] = "done" /\ response[p].http = 422
        /\ HasValidLang(req[p])
        /\ "msisdn" \in DOMAIN req[p].json
        /\ \E k \in 1..Len(req[p].json.msisdn) : req[p].json.msisdn[k] = ","
        /\ Len(store) > 0

\* the newest entity among those of the index set S
Newest(S) ==
    CHOOSE i \in S : \A j \in S : \/ store[j].date < store[i].date
                                  \/ store[j].date = store[i].date /\ j <= i

\* worker p runs line 54 in this step
Issues(p) == pc[p] = "issuing" /\ pc'[p] = "persisting"

\* C2: when the number has a pending entity dated within the last 10 minutes at issuance,
\* no code is generated and the code of the newest such entity is the one written into
\* the new entity and carried in the published payload or the development response
C2_CodeReuse ==
    [][\A p \in Workers :
         /\ Issues(p) =>
                LET window == Recent(req[p].json.msisdn, {"pending"}, 10) IN
                window # {} => code'[p] = store[Newest(window)].code /\ ~generated'[p]
         /\ pc[p] \in {"persisting", "dispatching"} => code'[p] \in {code[p], NoCode}
         /\ (pc[p] = "persisting" /\ pc'[p] = "dispatching") => store'[Len(store')].code = code[p]
         /\ (pc[p] = "dispatching" /\ pc'[p] = "done") =>
                /\ published' # published =>
                       /\ published' = Append(published, published'[Len(published')])
                       /\ published'[Len(published')].code = code[p]
                       /\ published'[Len(published')].registration_id = response[p].body.registration_id
                /\ "code" \in DOMAIN response'[p].body => response'[p].body.code = code[p]]_vars

\* a code was reused while the window held two pending entities with different codes
C2_Witness ==
    \E p \in Workers :
        /\ pc[p] = "persisting" /\ ~generated[p]
        /\ LET window == Recent(req[p].json.msisdn, {"pending"}, 10) IN
             /\ \E i, j \in window : store[i].code # store[j].code
             /\ code[p] = store[Newest(window)].code

\* C3: when no pending entity of the number is dated later than 10 minutes ago at
\* issuance, the code is generated, and it is a sequence of exactly 6 decimal digits
C3_FreshCode ==
    [][\A p \in Workers :
         Issues(p) =>
             (Recent(req[p].json.msisdn, {"pending"}, 10) = {} =>
                  /\ generated'[p]
                  /\ Len(code'[p]) = 6
                  /\ \A k \in 1..6 : code'[p][k] \in 0..9)]_vars

\* a code was generated, different from the code of the number's pending entity that is
\* exactly 10 minutes old
C3_Witness ==
    \E p \in Workers :
        /\ pc[p] = "persisting" /\ generated[p]
        /\ \E i \in 1..Len(store) :
              /\ store[i].msisdn = req[p].json.msisdn
              /\ store[i].status = "pending"
              /\ clock - store[i].date = 10
              /\ store[i].code # code[p]

\* the development bypass: the development stage and a request carrying send_sms = false
IsBypass(p) == STAGE = "DEVELOPMENT" /\ "send_sms" \in DOMAIN req[p].json /\ req[p].json.send_sms = FALSE

\* the number of entities of a number, of any status, dated less than `window` minutes ago
CountAll(m, window) ==
    Cardinality({ i \in 1..Len(store) : store[i].msisdn = m /\ clock - store[i].date < window })

\* worker p runs lines 62-68 in this step
Dispatches(p) == pc[p] = "dispatching" /\ pc'[p] = "done"

\* C4: outside the development bypass the throttle runs with the attempt's entity
\* already in the store, and the SMS is published if and only if the number has at most
\* 1 entity in the last minute, at most 2 in the last hour and at most 5 in the last day;
\* published or not, the entity stays and the response is ok with its registration_id
C4_DeliveryThrottle ==
    [][\A p \in Workers :
         (Dispatches(p) /\ ~IsBypass(p)) =>
             LET m == req[p].json.msisdn
                 id == response[p].body.registration_id
                 allowed == /\ CountAll(m, 1) <= 1
                            /\ CountAll(m, 60) <= 2
                            /\ CountAll(m, 1440) <= 5
             IN  /\ \E i \in 1..Len(store) : store[i].registration_id = id /\ store[i].msisdn = m
                 /\ IF allowed
                    THEN published' = Append(published,
                             [registration_id |-> id, msisdn |-> m, code |-> code[p], lang |-> req[p].json.lang])
                    ELSE published' = published
                 /\ store' = store
                 /\ response'[p] = [http |-> 200, body |-> [status |-> "ok", registration_id |-> id]]]_vars

\* an attempt ended ok and unpublished with only the day cap exceeded
C4_Witness ==
    \E p \in Workers :
        /\ pc[p] = "done" /\ response[p].http = 200
        /\ \A k \in 1..Len(published) : published[k].registration_id # response[p].body.registration_id
        /\ \E i \in 1..Len(store) : store[i].registration_id = response[p].body.registration_id
        /\ CountAll(req[p].json.msisdn, 1) = 1
        /\ CountAll(req[p].json.msisdn, 60) <= 2
        /\ CountAll(req[p].json.msisdn, 1440) = 6

\* C7: a response carries the code only in the development stage for a request with
\* send_sms = false; the ok response of such a request carries the attempt's code and
\* no SMS is published for it; in any other stage no response ever carries a code
C7_CodeDisclosure ==
    \A p \in Workers :
        /\ "code" \in DOMAIN response[p].body => IsBypass(p)
        /\ (pc[p] = "done" /\ response[p].http = 200 /\ IsBypass(p)) =>
               /\ "code" \in DOMAIN response[p].body
               /\ response[p].body.code = code[p]
               /\ \A k \in 1..Len(published) :
                      published[k].registration_id # response[p].body.registration_id
        /\ STAGE # "DEVELOPMENT" => "code" \notin DOMAIN response[p].body

\* in development a request with send_sms = false got the code of its entity back,
\* after an earlier attempt for the number had its SMS published
C7_Witness ==
    \E p \in Workers :
        /\ STAGE = "DEVELOPMENT"
        /\ pc[p] = "done" /\ response[p].http = 200
        /\ "code" \in DOMAIN response[p].body
        /\ \E i \in 1..Len(store) :
               /\ store[i].registration_id = response[p].body.registration_id
               /\ store[i].code = response[p].body.code
        /\ published # <<>>

\* C10: when the publish of an accepted attempt fails, its entity is still in the store
\* and the response is still ok with its registration_id
C10_DispatchFailureSwallowed ==
    \A p \in Workers :
        (pc[p] = "done" /\ future[p] = "failed") =>
            /\ response[p].http = 200
            /\ response[p].body.status = "ok"
            /\ \E i \in 1..Len(store) :
                   /\ store[i].registration_id = response[p].body.registration_id
                   /\ store[i].msisdn = req[p].json.msisdn
                   /\ store[i].code = code[p]

\* a publish failed
C10_Witness ==
    \E p \in Workers :
        /\ pc[p] = "done" /\ future[p] = "failed"
        /\ published # <<>>
        /\ published[Len(published)].registration_id = response[p].body.registration_id

\* a worker takes the step that follows the put
LeavesPersisting(p) == pc[p] = "persisting" /\ pc'[p] # "persisting"

\* C11: when the put of an attempt fails, so that no entity is written, the request ends
\* at once with a response that is not a success and carries no registration_id, and
\* nothing is published for it
C11_StoreFailureFailsRequest ==
    [][\A p \in Workers :
          (LeavesPersisting(p) /\ store' = store) =>
              /\ pc'[p] = "done"
              /\ response'[p].http # 200
              /\ response'[p].body.status # "ok"
              /\ "registration_id" \notin DOMAIN response'[p].body
              /\ published' = published]_vars

\* a put failed after an earlier attempt was stored and published
C11_Witness ==
    \E p \in Workers :
        /\ pc[p] = "done" /\ response[p].http = 500
        /\ Len(store) = 1 /\ Len(published) = 1
        /\ minted = 2

\* a step of the handler, as opposed to the clock or the verification step
HandlerStep == pc' # pc

\* C12: a step of the handler leaves every entity of the store in place with all its
\* fields as they were, and changes the store at most by adding one entity at the end
C12_AppendOnly ==
    [][HandlerStep =>
          \/ store' = store
          \/ /\ Len(store') = Len(store) + 1
             /\ SubSeq(store', 1, Len(store)) = store]_vars

\* a third entity was added next to one the verification step had marked
C12_Witness ==
    /\ Len(store) = 3
    /\ store[1].status = "incorrect"
    /\ store[3].date > store[1].date


\* the entities written from an address, of either status, dated within the last hour
RecentFromIp(ip) ==
    { i \in 1..Len(store) : /\ store[i].ip = ip
                            /\ store[i].status \in AnyStatus
                            /\ clock - store[i].date < OneHour }

\* C13: the outcome of validation is the same whatever address the request comes from,
\* and a request with a valid language and phone number whose number has 3 or fewer
\* pending plus incorrect entities in the last hour is admitted, however many entities
\* its address has written
C13_AdmissionIgnoresIp ==
    [][\A p \in Workers :
          Arrives(p) =>
              /\ \A xff \in Addresses :
                     is_request_valid([req'[p] EXCEPT !.xff = xff], store, clock) = response'[p]
              /\ ( /\ IsPostJson(req'[p]) /\ HasValidLang(req'[p]) /\ HasValidPhone(req'[p])
                   /\ Cardinality(Recent(req'[p].json.msisdn, AnyStatus, OneHour))
                          < INVALID_REGS_PER_MSISDN_LIMIT )
                  => pc'[p] = "issuing"]_vars

\* a request was admitted whose address had written 10 entities for other numbers
\* within the last hour
C13_Witness ==
    \E p \in Workers :
        /\ pc[p] = "issuing"
        /\ Cardinality({ i \in RecentFromIp(SourceIp(req[p])) : store[i].msisdn # req[p].json.msisdn })
               >= INVALID_REGS_PER_IP_LIMIT

\* worker p holds the success response of an attempt it has stored
Stored200(p) == pc[p] \in {"dispatching", "done"} /\ response[p].http = 200

\* the entities stored under the registration_id that worker p answers with
OwnEntities(p) ==
    { i \in 1..Len(store) : store[i].registration_id = response[p].body.registration_id }

\* C14: requests that overlap, for the same number or not, all succeed: each has
\* exactly one entity of its own in the store, under its own registration_id and with
\* the code it issued, and no two of them share a registration_id, so that none is
\* lost or overwritten when both issued a code before either was stored
C14_DuplicateCodeRaceBenign ==
    \A p \in Workers :
        Stored200(p) =>
            /\ Cardinality(OwnEntities(p)) = 1
            /\ \A i \in OwnEntities(p) : /\ store[i].code = code[p]
                                          /\ store[i].msisdn = req[p].json.msisdn
            /\ \A q \in Workers \ {p} :
                   Stored200(q) => response[q].body.registration_id # response[p].body.registration_id

\* two overlapping requests for one number each drew a code, the codes differ, and the
\* store ends with the two pending entities
C14_Witness ==
    /\ \A p \in Workers : pc[p] = "done" /\ response[p].http = 200 /\ generated[p]
    /\ req[1].json.msisdn = req[2].json.msisdn
    /\ code[1] # code[2]
    /\ Len(store) = 2
    /\ \A i \in 1..2 : /\ store[i].status = "pending"
                        /\ store[i].msisdn = req[1].json.msisdn
                        /\ store[i].date = clock
    /\ {store[1].code, store[2].code} = {code[1], code[2]}

\* C15: the channel only grows, by one message per step; the message a step publishes
\* carries the registration_id, phone number and code of an entity that was in the
\* store before the step, and no earlier message carries that registration_id
C15_PublishFollowsPersist ==
    [][/\ Len(published') >= Len(published)
       /\ SubSeq(published', 1, Len(published)) = published
       /\ published' # published =>
              /\ Len(published') = Len(published) + 1
              /\ LET message == published'[Len(published')] IN
                     /\ \E i \in 1..Len(store) :
                            /\ store[i].registration_id = message.registration_id
                            /\ store[i].msisdn = message.msisdn
                            /\ store[i].code = message.code
                     /\ \A k \in 1..Len(published) :
                            published[k].registration_id # message.registration_id]_vars

\* two overlapping requests were both published, each after its entity was stored
C15_Witness ==
    /\ Len(published) = 2
    /\ \A p \in Workers :
           /\ pc[p] = "done"
           /\ \E k \in 1..2 : published[k].registration_id = response[p].body.registration_id
    /\ \A k \in 1..2 : \E i \in 1..Len(store) :
           /\ store[i].registration_id = published[k].registration_id
           /\ store[i].code = published[k].code

\* the entities of the number of entity e dated within the hour that ends at e's date:
\* later than one hour before it and no later than it
HourEndingAt(e) ==
    { i \in 1..Len(store) : /\ store[i].msisdn = store[e].msisdn
                            /\ store[e].date - store[i].date < OneHour
                            /\ store[i].date <= store[e].date }

\* C16: with requests handled one at a time and every entity pending or incorrect, no
\* one-hour window holds more than 4 entities of one number
C16_SequentialRecordBound ==
    \A e \in 1..Len(store) :
        /\ store[e].status \in AnyStatus
        /\ Cardinality(HourEndingAt(e)) <= INVALID_REGS_PER_MSISDN_LIMIT

\* a number has 5 entities, 4 of them within one hour, one of them marked incorrect
C16_Witness ==
    /\ Len(store) = 5
    /\ \A i \in 1..5 : store[i].msisdn = store[1].msisdn
    /\ Cardinality(HourEndingAt(5)) = INVALID_REGS_PER_MSISDN_LIMIT
    /\ \E i \in HourEndingAt(5) : store[i].status = "incorrect"

\* C17: the gate reads the store and the put comes later, with nothing held in between,
\* so requests that overlap are all admitted on the same count: a one-hour window can
\* hold more than 4 pending plus incorrect entities of one number, and holds at most 3
\* plus one for each request that can be in progress at once
C17_GateOvershootBounded ==
    \A e \in 1..Len(store) :
        Cardinality({ i \in HourEndingAt(e) : store[i].status \in AnyStatus })
            <= INVALID_REGS_PER_MSISDN_LIMIT - 1 + NumWorkers

\* two requests were admitted on a count of 3 and both were stored: the number has
\* 5 pending plus incorrect entities within one hour
C17_Witness ==
    /\ \A p \in Workers : Stored200(p)
    /\ \E e \in 1..Len(store) :
           /\ Cardinality({ i \in HourEndingAt(e) : store[i].status \in AnyStatus })
                  > INVALID_REGS_PER_MSISDN_LIMIT
           /\ \A p \in Workers : \E i \in HourEndingAt(e) : i \in OwnEntities(p)

\* C19: an attempt whose throttle runs while another entity of its number is dated
\* within the same last minute as its own is not published, whether or not that other
\* entity was, and still ends ok with its registration_id and its entity in the store
C19_MutualSuppression ==
    [][\A p \in Workers :
          ( /\ Dispatches(p) /\ ~IsBypass(p)
            /\ \E i, j \in Recent(req[p].json.msisdn, AnyStatus, OneMinute) :
                   i \in OwnEntities(p) /\ j \notin OwnEntities(p) )
          => /\ published' = published
             /\ response'[p] = response[p]
             /\ response'[p].http = 200
             /\ "registration_id" \in DOMAIN response'[p].body
             /\ store' = store]_vars

\* two overlapping requests for a number without earlier entities were both stored
\* before either throttle ran: both ended ok and nothing was published at all
C19_Witness ==
    /\ minted = 2 /\ Len(store) = 2
    /\ published = <<>>
    /\ \A p \in Workers :
           /\ pc[p] = "done" /\ response[p].http = 200
           /\ Cardinality(OwnEntities(p)) = 1
    /\ response[1].body.registration_id # response[2].body.registration_id

\* entity i has had its SMS published
IsPublished(i) == \E k \in 1..Len(published) : published[k].registration_id = store[i].registration_id

\* the published entities of the number of entity e dated within the window that ends
\* at e's date
PublishedEndingAt(e, window) ==
    { i \in 1..Len(store) : /\ store[i].msisdn = store[e].msisdn
                            /\ store[e].date - store[i].date < window
                            /\ store[i].date <= store[e].date
                            /\ IsPublished(i) }

\* the entities of a number dated less than `window` minutes ago whose SMS is among
\* the messages of `channel`
PublishedRecentIn(channel, m, window) ==
    { i \in 1..Len(store) :
          /\ store[i].msisdn = m
          /\ clock - store[i].date < window
          /\ \E k \in 1..Len(channel) : channel[k].registration_id = store[i].registration_id }

PublishedRecent(m, window) == PublishedRecentIn(published, m, window)

\* C18 as it is worded: under every interleaving, the entities of one number dated within
\* any one minute have at most 1 SMS published between them, those within any one hour
\* at most 2, and those within any one day at most 5
C18_DispatchCapsAnyWindow ==
    \A e \in 1..Len(store) :
        /\ Cardinality(PublishedEndingAt(e, OneMinute)) <= SEND_SMS_LIMIT_PER_MINUTE
        /\ Cardinality(PublishedEndingAt(e, OneHour)) <= SEND_SMS_LIMIT_PER_HOUR
        /\ Cardinality(PublishedEndingAt(e, OneDay)) <= SEND_SMS_LIMIT_PER_24_HOURS

\* C18: under every interleaving the caps hold for the windows that end at the moment
\* of a publish: when an SMS is published the number has, published or not, at most 1
\* entity dated within the last minute, at most 2 within the last hour and at most 5
\* within the last day, and so at most that many published ones, the new one included
C18_DispatchCapsAtPublish ==
    [][published' # published =>
          LET m == published'[Len(published')].msisdn IN
              /\ CountAll(m, OneMinute) <= SEND_SMS_LIMIT_PER_MINUTE
              /\ CountAll(m, OneHour) <= SEND_SMS_LIMIT_PER_HOUR
              /\ CountAll(m, OneDay) <= SEND_SMS_LIMIT_PER_24_HOURS
              /\ Cardinality(PublishedRecentIn(published', m, OneMinute)) <= SEND_SMS_LIMIT_PER_MINUTE
              /\ Cardinality(PublishedRecentIn(published', m, OneHour)) <= SEND_SMS_LIMIT_PER_HOUR
              /\ Cardinality(PublishedRecentIn(published', m, OneDay)) <= SEND_SMS_LIMIT_PER_24_HOURS]_vars

\* an SMS was published for an attempt stored while another request overlapped it,
\* and the number has a second published entity within the hour
C18_Witness ==
    \E p, q \in Workers :
        /\ p # q
        /\ pc[p] = "done" /\ Stored200(p) /\ Stored200(q)
        /\ \E i \in OwnEntities(p) :
               /\ IsPublished(i)
               /\ store[i].date = clock
               /\ Cardinality(PublishedRecent(store[i].msisdn, OneHour)) = SEND_SMS_LIMIT_PER_HOUR

\* the entities of a number that carry the code c
Carrying(m, c) == { i \in 1..Len(store) : store[i].msisdn = m /\ store[i].code = c }

\* C20 as it is worded: the code an attempt is given was first minted for the number
\* less than 10 minutes before the attempt, so every entity of the number that carries
\* it is dated less than 10 minutes before
C20_LifetimeWithinWindow ==
    [][\A p \in Workers :
          Issues(p) =>
              \A i \in Carrying(req[p].json.msisdn, code'[p]) :
                  clock - store[i].date < PendingCodePeriod]_vars

\* C20: the code an attempt is given is either generated, or the code of a pending
\* entity of the number dated less than 10 minutes before the attempt; the entity that
\* first minted it may be older, as each reuse writes an entity that can be reused again
C20_CodeFromRecentEntity ==
    [][\A p \in Workers :
          Issues(p) =>
              \/ generated'[p]
              \/ /\ ~generated'[p]
                 /\ \E i \in Recent(req[p].json.msisdn, {"pending"}, PendingCodePeriod) :
                        store[i].code = code'[p]]_vars

\* a retry 6 minutes after the previous one reused a code that was minted 12 minutes
\* before
C20_Witness ==
    \E p \in Workers :
        /\ pc[p] = "persisting" /\ ~generated[p]
        /\ \E i, j \in Carrying(req[p].json.msisdn, code[p]) :
               /\ clock - store[i].date >= PendingCodePeriod
               /\ clock - store[j].date < PendingCodePeriod
               /\ store[j].status = "pending"

=============================================================================
